---- MODULE Spec2Model ----
(***************************************************************************)
(* graze/signal-counter: the signal capture and delivery pipeline.         *)
(*                                                                         *)
(* Spec models the last revision of signalCounter.c (src/unnamed/part_000  *)
(* lines 525-934): the interrupt thread started by wiringPiISR runs        *)
(* signalIsr, which appends to the count file, and the main loop calls     *)
(* processCountFile once per second.  The two run concurrently; every      *)
(* file-system call is one step.  SpecFair is Spec with a main loop that   *)
(* never stops and an environment that lets retries succeed; SpecExample   *)
(* is the run of the worked example; SpecThreaded is the revision of lines *)
(* 1-350; SpecSubmit is src/signalCounter.c.                               *)
(***************************************************************************)
EXTENDS Integers, Sequences, FiniteSets, TLC

\* ------------------------------------------------------------------ bounds
MaxEvents == 2          \* events handed to fileRecordSignalCount in one run
MaxRestarts == 1        \* crashes and power losses followed by a restart
MaxThreads == 2         \* processCountFile threads created in one run

\* ------------------------------------------------------- program constants
TRIGGER_INTERVAL_MS == 300
DEBOUNCE_INTERVAL_MS == 200

\* gettimeofday() in ms since the epoch, as read by signalIsr.  The wall
\* clock may step backwards, so any order of these values can be observed.
\* 0 is left out: the clock of a running system never reads the epoch itself.
\* From 1000 the other two are one millisecond short of TRIGGER_INTERVAL_MS
\* and exactly it; the worked example brings its own times.
Times == {1000, 1299, 1300}

\* digitalRead(PIN_INPUT)
Levels == {0, 1}

\* What one call of requestPostCsv can meet: curl_easy_init returns no handle;
\* or curl_easy_perform is answered 2xx, is answered with a non-success
\* status, or fails below HTTP.
Outcomes == {"http2xx", "httpError", "networkError", "noHandle"}

VARIABLES
    \* ---- process memory
    interruptTimeMsRising,  \* static unsigned long long, 0 = no rising edge
    isProcessingCountFile,  \* static bool
    isrPc,                  \* position of the interrupt thread
    filePointerCount,       \* where the inode opened by signalIsr is now
    isrEvent,               \* the line fileRecordSignalCount is about to write
    pc,                     \* position of the main thread
    csv,                    \* processCountFile's local: contents read from swap
    requestPostCsvSuccess,  \* processCountFile's local: requestPostCsv's result
    macAddress,             \* processCountFile's local: the device identifier
    \* ---- file system
    count,                  \* PATH_SIGNAL_COUNT
    swap,                   \* PATH_SIGNAL_COUNT_SWAP
    unsynced,               \* ids of lines that are in the page cache only
    \* ---- history (not program state)
    nEvents,                \* events handed to fileRecordSignalCount so far
    acked,                  \* ids whose fileRecordSignalCount returned 0
    blinked,                \* ids for which signalIsr called ledBlink
    sent,                   \* ids in a csv for which requestPostCsv returned 0
    delivered,              \* ids in a csv that the collector answered with 2xx
    lastRise,               \* {time of the last rising edge}, {} after a fall
    fallingRun,             \* falling edges handled in a row (counted to 2)
    lastOutcome,            \* outcome of the call whose result is acted upon
    preRotation,            \* ids in count when this invocation found no swap
    rotated,                \* this invocation renamed count to swap
    lastExit,               \* the path the last finished invocation took
    overdue,                \* the transport call has outlasted the period
    crashPoint,             \* where the last crash hit the rotation
    restarts,
    \* ---- the revision that starts processCountFile as a thread (lines 1-350)
    interruptTimePrevious,  \* static unsigned long long
    isProcessingCountFileInt, \* static int isProcessingCountFile = -1
    thr,                    \* position of each processCountFile thread
    nThreads,               \* threads created so far
    isSubmittingSignalCount \* src/signalCounter.c: unsigned int, as halves

isrVars == <<interruptTimeMsRising, isrPc, filePointerCount, isrEvent>>
pcfVars ==
    <<isProcessingCountFile, pc, csv, requestPostCsvSuccess, macAddress>>
fsVars == <<count, swap>>
edgeHist == <<lastRise, fallingRun>>
isrHist == <<nEvents, acked>>
pcfHist == <<sent, lastOutcome, preRotation, rotated, lastExit, overdue>>
crashHist == <<crashPoint, restarts>>
thrVars == <<interruptTimePrevious, isProcessingCountFileInt, thr, nThreads,
             isSubmittingSignalCount>>
vars ==
    <<isrVars, pcfVars, fsVars, unsynced, edgeHist, isrHist, blinked, pcfHist,
      delivered, crashHist, thrVars>>

\* ---------------------------------------------------------------- helpers
NoEvent == [id |-> 0, line |-> 0]
Absent == [exists |-> FALSE, data |-> <<>>]
File(lines) == [exists |-> TRUE, data |-> lines]

Range(s) == {s[i] : i \in 1..Len(s)}
Ids(f) == {e.id : e \in Range(f.data)}
IdsOf(s) == {e.id : e \in Range(s)}

\* intervalTimeMs < k where intervalTimeMs = a - b in unsigned long long:
\* the difference is taken modulo 2^64, so for b > a it is 2^64 - (b - a),
\* which is not below k for any times a, b < 2^64 - k.
UnsignedDiffBelow(a, b, k) == IF a >= b THEN a - b < k ELSE FALSE

\* The value an int has after conversion to unsigned int, n modulo 2^32, as
\* the pair of its upper and lower 16 bits.
ToUnsigned(n) == <<(n \div 65536) % 65536, n % 65536>>

\* a > b for two unsigned int values
UnsignedGreater(a, b) == a[1] > b[1] \/ (a[1] = b[1] /\ a[2] > b[2])

\* ----------------------------------------------------------- signalIsr
\* if(digitalRead(PIN_INPUT) == 1)
IsRisingEdge(level) == level = 1

\* if(interruptTimeMsRising == 0)
NoPrecedingRisingEdge_never == FALSE
NoPrecedingRisingEdge == interruptTimeMsRising = 0

\* if(intervalTimeMs < TRIGGER_INTERVAL_MS)
SignalTooShort(t) ==
    UnsignedDiffBelow(t, interruptTimeMsRising, TRIGGER_INTERVAL_MS)

\* (variant: the falling edge leaves the rising time in place)
ResetRising_kept == interruptTimeMsRising

\* interruptTimeMsRising = 0 after a falling edge that had a rising edge
ResetRising == 0

\* (variant: the time written as it is, in milliseconds)
Line_milliseconds(t) == t

\* fprintf(filePointerCount, "%llu\n", interruptTimeMs / 1000)
Line(t) == t \div 1000

\* ledBlink(200), called by signalIsr when fileRecordSignalCount has
\* returned, whatever it returned
ledBlink(id) == blinked' = blinked \cup {id}

\* fopen(PATH_SIGNAL_COUNT, "a"): creates the file when it is missing
fileOpenCount ==
    /\ count' = IF count.exists THEN count ELSE File(<<>>)
    /\ filePointerCount' = "count"

\* signalIsr up to the fopen of fileRecordSignalCount (or to its return when
\* nothing is recorded or the fopen fails).
signalIsr(level, t, fopenOk) ==
    /\ isrPc = "idle"
    /\ UNCHANGED thrVars
    /\ UNCHANGED delivered
    /\ UNCHANGED unsynced
    /\ nEvents < MaxEvents
    /\ fallingRun' = IF level = 1 THEN 0
                   ELSE IF fallingRun < 2 THEN fallingRun + 1 ELSE 2
    /\ lastRise' = IF level = 1 THEN {t} ELSE {}
    /\ UNCHANGED <<pcfVars, swap, acked, pcfHist, crashHist>>
    /\ IF IsRisingEdge(level)
       THEN /\ interruptTimeMsRising' = t
            /\ UNCHANGED <<isrPc, filePointerCount, isrEvent, count, nEvents,
                           blinked>>
       ELSE IF NoPrecedingRisingEdge
       THEN UNCHANGED <<isrVars, count, nEvents, blinked>>
       ELSE /\ interruptTimeMsRising' = ResetRising
            /\ IF SignalTooShort(t)
               THEN UNCHANGED <<isrPc, filePointerCount, isrEvent, count,
                                nEvents, blinked>>
               ELSE /\ nEvents' = nEvents + 1
                    /\ IF fopenOk
                       THEN /\ fileOpenCount
                            /\ isrPc' = "opened"
                            /\ isrEvent' =
                                   [id |-> nEvents + 1, line |-> Line(t)]
                            /\ UNCHANGED blinked
                       ELSE \* return -1; ledBlink(200); return
                            /\ ledBlink(nEvents + 1)
                            /\ UNCHANGED <<isrPc, filePointerCount, isrEvent,
                                           count>>

\* fprintf + fclose: the buffered line reaches the inode the stream was
\* opened on, wherever that inode is by now; then return 0 and ledBlink(200).
fileWriteClose ==
    /\ count' = IF filePointerCount = "count"
                THEN [count EXCEPT !.data = Append(@, isrEvent)] ELSE count
    /\ swap' = IF filePointerCount = "swap"
               THEN [swap EXCEPT !.data = Append(@, isrEvent)] ELSE swap

fileRecordSignalCount ==
    /\ isrPc = "opened"
    /\ UNCHANGED thrVars
    /\ UNCHANGED delivered
    /\ ledBlink(isrEvent.id)
    /\ fileWriteClose
    /\ unsynced' = IF filePointerCount \in {"count", "swap"}
                   THEN unsynced \cup {isrEvent.id} ELSE unsynced
    /\ acked' = acked \cup {isrEvent.id}
    /\ isrPc' = "idle"
    /\ filePointerCount' = "none"
    /\ isrEvent' = NoEvent
    /\ UNCHANGED <<interruptTimeMsRising, pcfVars, edgeHist, nEvents, pcfHist,
                   crashHist>>

\* ------------------------------------------------------ processCountFile
\* (variant: the test written "< 1", which access()'s 0 and -1 both pass)
SwapFileMissing_lessThanOne == TRUE

\* fileSwapFileExists() < 0
SwapFileMissing == ~swap.exists

\* (variant: a test that no result of access() passes)
CountFileMissing_never == FALSE

\* fileCountFileExists() < 0
CountFileMissing == ~count.exists

\* (variant: the rotation done as a copy that leaves count in place)
fileMoveCountToSwap_copy ==
    /\ swap' = count
    /\ count' = count
    /\ filePointerCount' = IF filePointerCount = "swap" THEN "unlinked"
                           ELSE filePointerCount

\* (variant: swap created anew and count removed before its lines are copied)
fileMoveCountToSwap_truncate ==
    /\ swap' = File(<<>>)
    /\ count' = Absent
    /\ filePointerCount' = IF filePointerCount \in {"count", "swap"}
                           THEN "unlinked" ELSE filePointerCount

\* rename(PATH_SIGNAL_COUNT, PATH_SIGNAL_COUNT_SWAP): the inode of count gets
\* the name of swap (replacing what had that name); an open stream follows
\* its inode.
fileMoveCountToSwap ==
    /\ swap' = count
    /\ count' = Absent
    /\ filePointerCount' = CASE filePointerCount = "count" -> "swap"
                             [] filePointerCount = "swap" -> "unlinked"
                             [] OTHER -> filePointerCount

\* curl_easy_perform(curl) == CURLE_OK: libcurl reports a completed HTTP
\* exchange as CURLE_OK whatever its status (CURLOPT_FAILONERROR is not set).
CurlOk(outcome) == outcome \in {"http2xx", "httpError"}

\* curl = curl_easy_init(); if(curl) { ... }
CurlHandle(outcome) == outcome # "noHandle"

\* requestPostCsv's return value: returnValue is 0 unless curl_easy_perform
\* was called and did not return CURLE_OK
requestPostCsv(outcome) ==
    IF CurlHandle(outcome) /\ ~CurlOk(outcome) THEN -1 ELSE 0

\* remove(PATH_SIGNAL_COUNT_SWAP)
fileRemoveSwap ==
    /\ swap' = Absent
    /\ filePointerCount' = IF filePointerCount = "swap" THEN "unlinked"
                           ELSE filePointerCount

\* (variant: a return that leaves the flag set)
Return_guardKept ==
    /\ isProcessingCountFile' = isProcessingCountFile
    /\ pc' = "delay"
    /\ csv' = <<>>
    /\ requestPostCsvSuccess' = 0
    /\ macAddress' = ""
    /\ rotated' = FALSE
    /\ preRotation' = {}
    /\ overdue' = FALSE

\* isProcessingCountFile = false; return, back in main's for(;;)
Return ==
    /\ isProcessingCountFile' = FALSE
    /\ pc' = "delay"
    /\ csv' = <<>>
    /\ requestPostCsvSuccess' = 0
    /\ macAddress' = ""
    /\ rotated' = FALSE
    /\ preRotation' = {}
    /\ overdue' = FALSE

\* (variant: processCountFile called by a timer, also while an earlier call
\* is in its transport call)
main_timer ==
    /\ pc \in {"delay", "post"}
    /\ UNCHANGED thrVars
    /\ UNCHANGED delivered
    /\ UNCHANGED blinked
    /\ UNCHANGED unsynced
    /\ pc' = IF isProcessingCountFile THEN pc ELSE "set"
    /\ UNCHANGED <<isrVars, isProcessingCountFile, csv, requestPostCsvSuccess,
                   macAddress, fsVars, edgeHist, isrHist, pcfHist, crashHist>>

\* main: delay(1000); processCountFile();  if(isProcessingCountFile) return;
main ==
    /\ pc = "delay"
    /\ UNCHANGED thrVars
    /\ UNCHANGED delivered
    /\ UNCHANGED blinked
    /\ UNCHANGED unsynced
    /\ pc' = IF isProcessingCountFile THEN "delay" ELSE "set"
    /\ UNCHANGED <<isrVars, isProcessingCountFile, csv, requestPostCsvSuccess,
                   macAddress, fsVars, edgeHist, isrHist, pcfHist, crashHist>>

\* isProcessingCountFile = true;
setProcessing ==
    /\ pc = "set"
    /\ UNCHANGED thrVars
    /\ UNCHANGED delivered
    /\ UNCHANGED blinked
    /\ UNCHANGED unsynced
    /\ isProcessingCountFile' = TRUE
    /\ pc' = "swapExists"
    /\ UNCHANGED <<isrVars, csv, requestPostCsvSuccess, macAddress, fsVars,
                   edgeHist, isrHist, pcfHist, crashHist>>

\* if(fileSwapFileExists() < 0) ... else "swap file already exists"
checkSwap ==
    /\ pc = "swapExists"
    /\ UNCHANGED thrVars
    /\ UNCHANGED delivered
    /\ UNCHANGED blinked
    /\ UNCHANGED unsynced
    /\ IF SwapFileMissing
       THEN /\ pc' = "countExists"
            /\ preRotation' = Ids(count)
       ELSE /\ pc' = "read"
            /\ UNCHANGED preRotation
    /\ UNCHANGED <<isrVars, isProcessingCountFile, csv, requestPostCsvSuccess,
                   macAddress, fsVars, edgeHist, isrHist, sent, lastOutcome,
                   rotated, lastExit, overdue, crashHist>>

\* if(fileCountFileExists() < 0) { isProcessingCountFile = false; return; }
checkCount ==
    /\ pc = "countExists"
    /\ UNCHANGED thrVars
    /\ UNCHANGED delivered
    /\ UNCHANGED blinked
    /\ UNCHANGED unsynced
    /\ IF CountFileMissing
       THEN /\ Return
            /\ lastExit' = "nothing"
       ELSE /\ pc' = "move"
            /\ UNCHANGED <<isProcessingCountFile, csv, requestPostCsvSuccess,
                           macAddress, rotated, preRotation, lastExit,
                           overdue>>
    /\ UNCHANGED <<isrVars, fsVars, edgeHist, isrHist, sent, lastOutcome,
                   crashHist>>

\* if(fileMoveCountToSwap() < 0)
MoveFailed_ignored(renameOk) == FALSE
MoveFailed(renameOk) == ~renameOk

\* if(fileMoveCountToSwap() < 0) { isProcessingCountFile = false; return; }
moveCountToSwap(renameOk) ==
    /\ pc = "move"
    /\ UNCHANGED thrVars
    /\ UNCHANGED delivered
    /\ UNCHANGED blinked
    /\ UNCHANGED unsynced
    /\ IF renameOk
       THEN fileMoveCountToSwap
       ELSE UNCHANGED <<fsVars, filePointerCount>>
    /\ IF MoveFailed(renameOk)
       THEN /\ Return
            /\ lastExit' = "renameFailed"
       ELSE /\ pc' = "read"
            /\ rotated' = renameOk
            /\ UNCHANGED <<isProcessingCountFile, csv, requestPostCsvSuccess,
                           macAddress, preRotation, lastExit, overdue>>
    /\ UNCHANGED <<interruptTimeMsRising, isrPc, isrEvent, edgeHist, isrHist,
                   sent, lastOutcome, crashHist>>

\* the content of /sys/class/net/eth0/address
MacAddressEth0 == "b8:27:eb:00:00:01"

\* fileGetFileContents hands fopen's result to fseek unchecked. When fopen
\* returned NULL, fseek locks the stream before anything else, that is, it
\* dereferences the null pointer: the process receives SIGSEGV and every
\* thread of it ends. A line still in the interrupt thread's stream buffer
\* is gone with it.
Segfault ==
    /\ pc' = "terminated"
    /\ isrPc' = "terminated"
    /\ interruptTimeMsRising' = 0
    /\ filePointerCount' = "none"
    /\ isrEvent' = NoEvent
    /\ isProcessingCountFile' = FALSE
    /\ csv' = <<>>
    /\ requestPostCsvSuccess' = 0
    /\ macAddress' = ""
    /\ rotated' = FALSE
    /\ overdue' = FALSE
    /\ lastExit' = "segfault"
    /\ lastRise' = {}
    /\ fallingRun' = 0
    /\ UNCHANGED <<fsVars, isrHist, sent, lastOutcome, preRotation, crashHist>>

\* fileGetFileContents(filename) with a stream that opened: the whole file
fileGetFileContents ==
    /\ macAddress' = MacAddressEth0
    /\ csv' = swap.data
    /\ pc' = "post"
    /\ UNCHANGED <<isrVars, isProcessingCountFile, requestPostCsvSuccess,
                   fsVars, edgeHist, isrHist, pcfHist, crashHist>>

\* char * macAddress = fileGetMacAddress();
\* char * csv = fileGetSwapFileContents();
\* macOk, swapOk: whether the fopen of the address file, of the swap file,
\* returned a stream.
readSwap(macOk, swapOk) ==
    /\ pc = "read"
    /\ UNCHANGED thrVars
    /\ UNCHANGED delivered
    /\ UNCHANGED blinked
    /\ UNCHANGED unsynced
    /\ swap.exists
    /\ IF macOk /\ swapOk THEN fileGetFileContents ELSE Segfault

\* curl_easy_perform returns when the exchange is over, however long that
\* takes (no CURLOPT_TIMEOUT is set): while it is under way the 1000 ms
\* of main's delay can pass.
periodElapses ==
    /\ pc = "post"
    /\ ~overdue
    /\ overdue' = TRUE
    /\ UNCHANGED <<isrVars, pcfVars, fsVars, unsynced, edgeHist, isrHist,
                   blinked, sent, delivered, lastOutcome, preRotation, rotated,
                   lastExit, crashHist, thrVars>>

\* requestPostCsvSuccess = requestPostCsv(macAddress, csv);
\* if(requestPostCsvSuccess < 0) { isProcessingCountFile = false; return; }
postCsv(outcome) ==
    /\ pc = "post"
    /\ UNCHANGED thrVars
    /\ UNCHANGED blinked
    /\ UNCHANGED unsynced
    /\ lastOutcome' = IF requestPostCsv(outcome) < 0 THEN "none"
                      ELSE outcome
    /\ delivered' = IF outcome = "http2xx" THEN delivered \cup IdsOf(csv)
                    ELSE delivered
    /\ IF requestPostCsv(outcome) < 0
       THEN /\ Return
            /\ lastExit' = "postFailed"
            /\ UNCHANGED sent
       ELSE /\ requestPostCsvSuccess' = requestPostCsv(outcome)
            /\ sent' = IF CurlHandle(outcome) THEN sent \cup IdsOf(csv)
                       ELSE sent
            /\ pc' = "remove"
            /\ UNCHANGED <<isProcessingCountFile, csv, macAddress, rotated,
                           preRotation, lastExit, overdue>>
    /\ UNCHANGED <<isrVars, fsVars, edgeHist, isrHist, crashHist>>

\* if(remove(PATH_SIGNAL_COUNT_SWAP) < 0) printf("failed to delete swap\n");
\* isProcessingCountFile = false; return;
removeSwap(removeOk) ==
    /\ pc = "remove"
    /\ UNCHANGED thrVars
    /\ UNCHANGED delivered
    /\ UNCHANGED blinked
    /\ IF removeOk
       THEN /\ fileRemoveSwap
            /\ unsynced' = unsynced \ Ids(swap)
            /\ lastExit' = "removed"
            /\ UNCHANGED count
       ELSE /\ lastExit' = "removeFailed"
            /\ UNCHANGED <<fsVars, filePointerCount, unsynced>>
    /\ Return
    /\ lastOutcome' = "none"
    /\ UNCHANGED <<interruptTimeMsRising, isrPc, isrEvent, edgeHist, isrHist,
                   sent, crashHist>>

\* ---------------------------------------------------------------- restart
\* The process dies at any point and is started again (rc.local): its memory
\* is initialised anew, a line still in the stream's buffer is gone, the
\* files are what they were.
RotationPoint ==
    IF pc \in {"countExists", "move"} THEN "before"
    ELSE IF pc = "read" /\ rotated THEN "after"
    ELSE "outside"

Restart ==
    /\ restarts < MaxRestarts
    /\ UNCHANGED thrVars
    /\ UNCHANGED delivered
    /\ UNCHANGED blinked
    /\ UNCHANGED unsynced
    /\ restarts' = restarts + 1
    /\ crashPoint' = RotationPoint
    /\ interruptTimeMsRising' = 0
    /\ isrPc' = "idle"
    /\ filePointerCount' = "none"
    /\ isrEvent' = NoEvent
    /\ isProcessingCountFile' = FALSE
    /\ pc' = "delay"
    /\ csv' = <<>>
    /\ requestPostCsvSuccess' = 0
    /\ macAddress' = ""
    /\ rotated' = FALSE
    /\ lastExit' = "none"
    /\ overdue' = FALSE
    /\ lastRise' = {}
    /\ fallingRun' = 0
    /\ lastOutcome' = "none"
    /\ UNCHANGED <<fsVars, isrHist, sent, preRotation>>

\* fileRecordSignalCount ends with fclose and nothing else: fclose hands the
\* line to the kernel, there is no fflush + fsync (nor O_SYNC) that would
\* wait for the disk.  The kernel writes its dirty pages back later.
writeback ==
    /\ unsynced # {}
    /\ unsynced' = {}
    /\ UNCHANGED <<isrVars, pcfVars, fsVars, edgeHist, isrHist, blinked,
                   pcfHist, delivered, crashHist, thrVars>>

\* what is left of a file when the page cache is lost
Durable(f) ==
    [f EXCEPT !.data = SelectSeq(@, LAMBDA e : e.id \notin unsynced)]

\* The power fails and the device boots again: the process starts anew as
\* after a crash, and the lines the kernel had not written back are gone.
PowerLoss ==
    /\ restarts < MaxRestarts
    /\ UNCHANGED thrVars
    /\ UNCHANGED delivered
    /\ UNCHANGED blinked
    /\ restarts' = restarts + 1
    /\ crashPoint' = RotationPoint
    /\ count' = Durable(count)
    /\ swap' = Durable(swap)
    /\ unsynced' = {}
    /\ interruptTimeMsRising' = 0
    /\ isrPc' = "idle"
    /\ filePointerCount' = "none"
    /\ isrEvent' = NoEvent
    /\ isProcessingCountFile' = FALSE
    /\ pc' = "delay"
    /\ csv' = <<>>
    /\ requestPostCsvSuccess' = 0
    /\ macAddress' = ""
    /\ rotated' = FALSE
    /\ lastExit' = "none"
    /\ overdue' = FALSE
    /\ lastRise' = {}
    /\ fallingRun' = 0
    /\ lastOutcome' = "none"
    /\ UNCHANGED <<isrHist, sent, preRotation>>

\* ------------------------------------------------------------------ Spec
Init ==
    /\ interruptTimeMsRising = 0
    /\ isProcessingCountFile = FALSE
    /\ isrPc = "idle"
    /\ filePointerCount = "none"
    /\ isrEvent = NoEvent
    /\ pc = "delay"
    /\ csv = <<>>
    /\ requestPostCsvSuccess = 0
    /\ macAddress = ""
    /\ count = Absent
    /\ swap = Absent
    /\ nEvents = 0
    /\ acked = {}
    /\ sent = {}
    /\ delivered = {}
    /\ lastRise = {}
    /\ fallingRun = 0
    /\ lastOutcome = "none"
    /\ preRotation = {}
    /\ rotated = FALSE
    /\ lastExit = "none"
    /\ overdue = FALSE
    /\ unsynced = {}
    /\ blinked = {}
    /\ crashPoint = "none"
    /\ restarts = 0
    /\ interruptTimePrevious = 0
    /\ isProcessingCountFileInt = -1
    /\ thr = [i \in 1..MaxThreads |-> "none"]
    /\ nThreads = 0
    /\ isSubmittingSignalCount = ToUnsigned(-1)

Next ==
    \/ \E level \in Levels, t \in Times, fopenOk \in BOOLEAN :
           signalIsr(level, t, fopenOk)
    \/ fileRecordSignalCount
    \/ main
    \/ setProcessing
    \/ checkSwap
    \/ checkCount
    \/ \E renameOk \in BOOLEAN : moveCountToSwap(renameOk)
    \/ \E macOk \in BOOLEAN, swapOk \in BOOLEAN : readSwap(macOk, swapOk)
    \/ periodElapses
    \/ \E outcome \in Outcomes : postCsv(outcome)
    \/ \E removeOk \in BOOLEAN : removeSwap(removeOk)
    \/ Restart
    \/ writeback
    \/ PowerLoss

Spec == Init /\ [][Next]_vars

\* main's for(;;) { delay(1000); processCountFile(); } never stops while the
\* process lives, and every call it makes returns: each step of the main
\* thread and of the interrupt thread that can be taken is taken.  The
\* environment is kind in the end: a rename, an fopen, a transport call and
\* a remove that are tried again and again succeed at some time.
Fairness ==
    /\ WF_vars(main)
    /\ WF_vars(setProcessing)
    /\ WF_vars(checkSwap)
    /\ WF_vars(checkCount)
    /\ WF_vars(fileRecordSignalCount)
    /\ WF_vars(\E renameOk \in BOOLEAN : moveCountToSwap(renameOk))
    /\ WF_vars(\E macOk \in BOOLEAN, swapOk \in BOOLEAN :
                   readSwap(macOk, swapOk))
    /\ WF_vars(\E outcome \in Outcomes : postCsv(outcome))
    /\ WF_vars(\E removeOk \in BOOLEAN : removeSwap(removeOk))
    /\ SF_vars(moveCountToSwap(TRUE))
    /\ SF_vars(readSwap(TRUE, TRUE))
    /\ SF_vars(postCsv("http2xx"))
    /\ SF_vars(removeSwap(TRUE))

SpecFair == Init /\ [][Next]_vars /\ Fairness

\* ------------------------------------------------------ the worked example
\* The run of the example: the pin rises at 1000 ms and falls at 1350 ms,
\* once or several times, the count file can always be opened, and the
\* handler and processCountFile take turns: a notification comes while the
\* main loop is in its delay, and the loop calls processCountFile when the
\* handler has returned.  What the rename, the reads, the collector and the
\* remove do is left open.
exampleNotification ==
    /\ pc = "delay"
    /\ \/ lastRise = {} /\ signalIsr(1, 1000, TRUE)
       \/ lastRise = {1000} /\ signalIsr(0, 1350, TRUE)

exampleTick == isrPc = "idle" /\ main

NextExample ==
    \/ exampleNotification
    \/ fileRecordSignalCount
    \/ exampleTick
    \/ setProcessing
    \/ checkSwap
    \/ checkCount
    \/ \E renameOk \in BOOLEAN : moveCountToSwap(renameOk)
    \/ \E macOk \in BOOLEAN, swapOk \in BOOLEAN : readSwap(macOk, swapOk)
    \/ \E outcome \in Outcomes : postCsv(outcome)
    \/ \E removeOk \in BOOLEAN : removeSwap(removeOk)

SpecExample == Init /\ [][NextExample]_vars

\* =================================================== the threaded revision
(***************************************************************************)
(* SpecThreaded models the revision of lines 1-350: signalIsr debounces on  *)
(* the time since the last accepted interrupt, records the signal and       *)
(* starts PI_THREAD(processCountFile) as a new thread for every accepted    *)
(* interrupt.  The flag is an int, -1 when nothing is being processed.      *)
(***************************************************************************)
revisionVars == <<interruptTimeMsRising, pcfVars, unsynced, blinked, edgeHist,
                  lastOutcome, preRotation, rotated, lastExit, overdue,
                  crashHist, isSubmittingSignalCount, delivered>>

\* piThreadCreate(processCountFile)
piThreadCreate ==
    /\ nThreads' = nThreads + 1
    /\ thr' = [thr EXCEPT ![nThreads + 1] = "test"]

\* if((interruptTime - interruptTimePrevious) < DEBOUNCE_INTERVAL_MS) return;
IsJitter(t) == UnsignedDiffBelow(t, interruptTimePrevious, DEBOUNCE_INTERVAL_MS)

\* signalIsr up to the fopen of fileRecordSignalCount; when the fopen fails
\* the handler goes on to create the threads.
signalIsrThreaded(t, fopenOk) ==
    /\ isrPc = "idle"
    /\ nThreads < MaxThreads
    /\ UNCHANGED <<revisionVars, swap, acked, sent, isProcessingCountFileInt>>
    /\ IF IsJitter(t)
       THEN UNCHANGED <<isrPc, filePointerCount, isrEvent, count, nEvents,
                        interruptTimePrevious, thr, nThreads>>
       ELSE /\ interruptTimePrevious' = t
            /\ nEvents' = nEvents + 1
            /\ IF fopenOk
               THEN /\ fileOpenCount
                    /\ isrPc' = "opened"
                    /\ isrEvent' = [id |-> nEvents + 1, line |-> Line(t)]
                    /\ UNCHANGED <<thr, nThreads>>
               ELSE /\ piThreadCreate
                    /\ UNCHANGED <<isrPc, filePointerCount, isrEvent, count>>

\* the rest of fileRecordSignalCount (fprintf, fclose, return 0), then
\* piThreadCreate(ledSignalCounted); piThreadCreate(processCountFile);
recordAndCreateThread ==
    /\ isrPc = "opened"
    /\ fileWriteClose
    /\ acked' = acked \cup {isrEvent.id}
    /\ isrPc' = "idle"
    /\ filePointerCount' = "none"
    /\ isrEvent' = NoEvent
    /\ piThreadCreate
    /\ UNCHANGED <<revisionVars, nEvents, sent, interruptTimePrevious,
                   isProcessingCountFileInt>>

\* if(isProcessingCountFile > -1) return;
AlreadyProcessing == isProcessingCountFileInt > -1

thrTest(i) ==
    /\ thr[i] = "test"
    /\ thr' = [thr EXCEPT ![i] = IF AlreadyProcessing THEN "done" ELSE "set"]
    /\ UNCHANGED <<revisionVars, isrPc, filePointerCount, isrEvent, fsVars,
                   isrHist, sent, interruptTimePrevious,
                   isProcessingCountFileInt, nThreads>>

\* isProcessingCountFile = 0;
thrSet(i) ==
    /\ thr[i] = "set"
    /\ isProcessingCountFileInt' = 0
    /\ thr' = [thr EXCEPT ![i] = "swapExists"]
    /\ UNCHANGED <<revisionVars, isrPc, filePointerCount, isrEvent, fsVars,
                   isrHist, sent, interruptTimePrevious, nThreads>>

\* if(fileSwapFileExists() < 0)
thrCheckSwap(i) ==
    /\ thr[i] = "swapExists"
    /\ thr' = [thr EXCEPT ![i] = IF SwapFileMissing THEN "countExists"
                                 ELSE "post"]
    /\ UNCHANGED <<revisionVars, isrPc, filePointerCount, isrEvent, fsVars,
                   isrHist, sent, interruptTimePrevious,
                   isProcessingCountFileInt, nThreads>>

\* if(fileCountFileExists() < 0) { isProcessingCountFile = -1; return; }
thrCheckCount(i) ==
    /\ thr[i] = "countExists"
    /\ IF CountFileMissing
       THEN /\ isProcessingCountFileInt' = -1
            /\ thr' = [thr EXCEPT ![i] = "done"]
       ELSE /\ thr' = [thr EXCEPT ![i] = "move"]
            /\ UNCHANGED isProcessingCountFileInt
    /\ UNCHANGED <<revisionVars, isrPc, filePointerCount, isrEvent, fsVars,
                   isrHist, sent, interruptTimePrevious, nThreads>>

\* if(fileMoveCountToSwap() < 0) { isProcessingCountFile = -1; return; }
\* The rename fails when another thread has moved count away already.
thrMove(i, renameOk) ==
    /\ thr[i] = "move"
    /\ IF renameOk /\ count.exists
       THEN /\ fileMoveCountToSwap
            /\ thr' = [thr EXCEPT ![i] = "post"]
            /\ UNCHANGED isProcessingCountFileInt
       ELSE /\ isProcessingCountFileInt' = -1
            /\ thr' = [thr EXCEPT ![i] = "done"]
            /\ UNCHANGED <<fsVars, filePointerCount>>
    /\ UNCHANGED <<revisionVars, isrPc, isrEvent, isrHist, sent,
                   interruptTimePrevious, nThreads>>

\* requestPostCsv(); isProcessingCountFile = -1;
\* requestPostCsv reads the swap file itself and returns 0 whatever happened;
\* this revision never removes the swap file.
thrPost(i) ==
    /\ thr[i] = "post"
    /\ sent' = sent \cup Ids(swap)
    /\ isProcessingCountFileInt' = -1
    /\ thr' = [thr EXCEPT ![i] = "done"]
    /\ UNCHANGED <<revisionVars, isrPc, filePointerCount, isrEvent, fsVars,
                   isrHist, interruptTimePrevious, nThreads>>

NextThreaded ==
    \/ \E t \in Times, fopenOk \in BOOLEAN : signalIsrThreaded(t, fopenOk)
    \/ recordAndCreateThread
    \/ \E i \in 1..MaxThreads : thrTest(i)
    \/ \E i \in 1..MaxThreads : thrSet(i)
    \/ \E i \in 1..MaxThreads : thrCheckSwap(i)
    \/ \E i \in 1..MaxThreads : thrCheckCount(i)
    \/ \E i \in 1..MaxThreads, renameOk \in BOOLEAN : thrMove(i, renameOk)
    \/ \E i \in 1..MaxThreads : thrPost(i)

SpecThreaded == Init /\ [][NextThreaded]_vars

\* ====================================================== src/signalCounter.c
(***************************************************************************)
(* SpecSubmit models src/signalCounter.c: signalIsr debounces, records the  *)
(* signal and calls submitSignalCount, whose flag is an unsigned int.       *)
(* submitSignalCount guards itself against a call that arrives while an     *)
(* earlier one has not returned, so up to MaxThreads calls may overlap;     *)
(* thr[i] is the position of the i-th call.                                 *)
(***************************************************************************)
submitVars == <<interruptTimeMsRising, pcfVars, unsynced, edgeHist, sent,
                delivered,
                lastOutcome, preRotation, rotated, lastExit, overdue,
                crashHist, isProcessingCountFileInt>>

\* submitSignalCount();
submitSignalCount ==
    /\ nThreads' = nThreads + 1
    /\ thr' = [thr EXCEPT ![nThreads + 1] = "test"]

\* signalIsr up to the fopen of fileRecordSignalCount; when the fopen fails
\* the handler goes on to piThreadCreate(ledSignalCounted) and
\* submitSignalCount().
signalIsrCounter(t, fopenOk) ==
    /\ isrPc = "idle"
    /\ nThreads < MaxThreads
    /\ UNCHANGED <<submitVars, swap, acked, isSubmittingSignalCount>>
    /\ IF IsJitter(t)
       THEN UNCHANGED <<isrPc, filePointerCount, isrEvent, count, nEvents,
                        blinked, interruptTimePrevious, thr, nThreads>>
       ELSE /\ interruptTimePrevious' = t
            /\ nEvents' = nEvents + 1
            /\ IF fopenOk
               THEN /\ fileOpenCount
                    /\ isrPc' = "opened"
                    /\ isrEvent' = [id |-> nEvents + 1, line |-> Line(t)]
                    /\ UNCHANGED <<blinked, thr, nThreads>>
               ELSE /\ ledBlink(nEvents + 1)
                    /\ submitSignalCount
                    /\ UNCHANGED <<isrPc, filePointerCount, isrEvent, count>>

\* the rest of fileRecordSignalCount (fprintf, fclose, return 0), then
\* piThreadCreate(ledSignalCounted); submitSignalCount();
recordAndSubmit ==
    /\ isrPc = "opened"
    /\ fileWriteClose
    /\ acked' = acked \cup {isrEvent.id}
    /\ ledBlink(isrEvent.id)
    /\ isrPc' = "idle"
    /\ filePointerCount' = "none"
    /\ isrEvent' = NoEvent
    /\ submitSignalCount
    /\ UNCHANGED <<submitVars, nEvents, interruptTimePrevious,
                   isSubmittingSignalCount>>

\* if(isSubmittingSignalCount > -1): the operands are unsigned int and int,
\* so -1 is converted to unsigned int before the comparison
AlreadySubmitting ==
    UnsignedGreater(isSubmittingSignalCount, ToUnsigned(-1))

\* if(isSubmittingSignalCount > -1) { return; }
submitTest(i) ==
    /\ thr[i] = "test"
    /\ thr' = [thr EXCEPT ![i] = IF AlreadySubmitting THEN "done" ELSE "set"]
    /\ UNCHANGED <<submitVars, isrPc, filePointerCount, isrEvent, fsVars,
                   isrHist, blinked, interruptTimePrevious, nThreads,
                   isSubmittingSignalCount>>

\* isSubmittingSignalCount = 0;
submitSet(i) ==
    /\ thr[i] = "set"
    /\ isSubmittingSignalCount' = ToUnsigned(0)
    /\ thr' = [thr EXCEPT ![i] = "swapExists"]
    /\ UNCHANGED <<submitVars, isrPc, filePointerCount, isrEvent, fsVars,
                   isrHist, blinked, interruptTimePrevious, nThreads>>

\* if(fileSwapFileExists() < 0) ... else "swap file already exists"
submitCheckSwap(i) ==
    /\ thr[i] = "swapExists"
    /\ thr' = [thr EXCEPT ![i] = IF SwapFileMissing THEN "countExists"
                                 ELSE "submit"]
    /\ UNCHANGED <<submitVars, isrPc, filePointerCount, isrEvent, fsVars,
                   isrHist, blinked, interruptTimePrevious, nThreads,
                   isSubmittingSignalCount>>

\* if(fileCountFileExists() < 0) { isSubmittingSignalCount = -1; return; }
submitCheckCount(i) ==
    /\ thr[i] = "countExists"
    /\ IF CountFileMissing
       THEN /\ isSubmittingSignalCount' = ToUnsigned(-1)
            /\ thr' = [thr EXCEPT ![i] = "done"]
       ELSE /\ thr' = [thr EXCEPT ![i] = "move"]
            /\ UNCHANGED isSubmittingSignalCount
    /\ UNCHANGED <<submitVars, isrPc, filePointerCount, isrEvent, fsVars,
                   isrHist, blinked, interruptTimePrevious, nThreads>>

\* if(fileMoveCountToSwap() < 0) { isSubmittingSignalCount = -1; return; }
\* The rename fails when another call has moved count away already.
submitMove(i, renameOk) ==
    /\ thr[i] = "move"
    /\ IF renameOk /\ count.exists
       THEN /\ fileMoveCountToSwap
            /\ thr' = [thr EXCEPT ![i] = "submit"]
            /\ UNCHANGED isSubmittingSignalCount
       ELSE /\ isSubmittingSignalCount' = ToUnsigned(-1)
            /\ thr' = [thr EXCEPT ![i] = "done"]
            /\ UNCHANGED <<fsVars, filePointerCount>>
    /\ UNCHANGED <<submitVars, isrPc, isrEvent, isrHist, blinked,
                   interruptTimePrevious, nThreads>>

\* printf("submitting the file, or some isht\n");
\* isSubmittingSignalCount = -1;
submitEnd(i) ==
    /\ thr[i] = "submit"
    /\ isSubmittingSignalCount' = ToUnsigned(-1)
    /\ thr' = [thr EXCEPT ![i] = "done"]
    /\ UNCHANGED <<submitVars, isrPc, filePointerCount, isrEvent, fsVars,
                   isrHist, blinked, interruptTimePrevious, nThreads>>

NextSubmit ==
    \/ \E t \in Times, fopenOk \in BOOLEAN : signalIsrCounter(t, fopenOk)
    \/ recordAndSubmit
    \/ \E i \in 1..MaxThreads : submitTest(i)
    \/ \E i \in 1..MaxThreads : submitSet(i)
    \/ \E i \in 1..MaxThreads : submitCheckSwap(i)
    \/ \E i \in 1..MaxThreads : submitCheckCount(i)
    \/ \E i \in 1..MaxThreads, renameOk \in BOOLEAN : submitMove(i, renameOk)
    \/ \E i \in 1..MaxThreads : submitEnd(i)

SpecSubmit == Init /\ [][NextSubmit]_vars

\* ================================================================ claims
IsrStep(level, t) == \E fopenOk \in BOOLEAN : signalIsr(level, t, fopenOk)

\* C1: every event whose append returned success is, in every reachable
\* state, in the active slot, in the pending slot, or was in the csv of a
\* transport call that requestPostCsv reported as successful.
C1_NoAckedEventLost == acked \subseteq (Ids(count) \cup Ids(swap) \cup sent)

\* C2: at most one invocation of the delivery worker is between setting the
\* guard and clearing it, in the driver loop and among the threads started
\* by the interrupt handler alike.
InProgress(i) == thr[i] \in {"swapExists", "countExists", "move", "post"}

MainInProgress ==
    pc \in {"swapExists", "countExists", "move", "read", "post", "remove"}

C2_SingleFlight ==
    Cardinality({i \in 1..MaxThreads : InProgress(i)})
        + (IF MainInProgress THEN 1 ELSE 0) <= 1

\* C3: a notification records an event if and only if it is a falling edge
\* that follows a rising edge with fallingTimestamp - risingTimestamp >=
\* TRIGGER_INTERVAL_MS (as integers), and then it records exactly one.
Qualifies(level, t) ==
    level = 0 /\ \E rise \in lastRise : t - rise >= TRIGGER_INTERVAL_MS

C3_DebounceCorrectness ==
    [][\A level \in Levels, t \in Times :
          IsrStep(level, t) =>
              nEvents' = nEvents + (IF Qualifies(level, t) THEN 1 ELSE 0)]_vars

\* C4: a falling edge handled right after another falling edge, with no
\* rising edge between them, records no event.
C4_NoDoubleCount ==
    [][\A t \in Times :
          (IsrStep(0, t) /\ fallingRun >= 1) =>
              (nEvents' = nEvents /\ UNCHANGED <<isrPc, count, swap>>)]_vars

\* C4 witness: two falling edges in a row were handled, the first of them
\* having recorded the only event.
C4_Witness ==
    /\ fallingRun = 2
    /\ nEvents = 1
    /\ restarts = 0
    /\ acked = {1}

\* C5: when the transport call of an attempt fails, the pending slot exists
\* with the content it had when the attempt read it, and the guard is
\* cleared (so that the next invocation sends that same content).
C5_PendingIdenticalAfterFailure ==
    [][\A outcome \in Outcomes :
          (postCsv(outcome) /\ requestPostCsv(outcome) < 0) =>
              /\ swap'.exists
              /\ swap'.data = csv
              /\ ~isProcessingCountFile']_vars

\* C6: the pending slot is deleted only when the collector answered with a
\* success status: the worker is at the remove of the pending slot only
\* after such an answer.
C6_DeleteOnlyOnSuccessStatus == pc = "remove" => lastOutcome = "http2xx"

\* C7: the rotation step leaves every event that was in the active slot in
\* exactly one of the two slots.
C7_RotationConservesEvents ==
    [][(pc = "move" /\ pc' = "read") =>
          /\ \A e \in Ids(count) : (e \in Ids(count')) # (e \in Ids(swap'))
          /\ Ids(count') \cap Ids(swap') = {}]_vars

\* C7 witness: the worker has just renamed an active slot holding two events.
C7_Witness ==
    /\ pc = "read"
    /\ rotated
    /\ Ids(swap) = {1, 2}
    /\ ~count.exists

\* C8: a crash or a power loss at any step of the rotation leaves the files
\* in the state before the rotation (pending absent, every event of the
\* active slot still in it) or in the state after it (pending present with
\* those events, none of them in the active slot); and no event is ever in
\* both slots.  The events of the active slot are those on the disk: what a
\* power loss takes from the page cache is no loss of the rotation.
BeforeOrAfterRotation(stored) ==
    /\ Ids(count') \cap Ids(swap') = {}
    /\ RotationPoint = "before" =>
           (~swap'.exists /\ stored \subseteq Ids(count'))
    /\ RotationPoint = "after" =>
           /\ swap'.exists
           /\ ~count'.exists \/ Ids(count') \cap preRotation = {}
           /\ stored \subseteq Ids(swap')

C9_PendingNeverAppended ==
    [][(swap.exists /\ swap'.exists) => swap'.data = swap.data]_vars

\* C10: an invocation that finds the pending slot goes on to read it without
\* a rename and leaves both files as they are; a rename is only made when
\* there is no pending slot; and what that invocation sends was read from
\* the pending slot, none of it from the active slot.
C10_PendingNeverOverwritten ==
    /\ [][(checkSwap /\ swap.exists) =>
             (pc' = "read" /\ UNCHANGED <<count, swap, rotated>>)]_vars
    /\ [][(\E renameOk \in BOOLEAN : moveCountToSwap(renameOk)) =>
             ~swap.exists]_vars
    /\ [][(readSwap(TRUE, TRUE) /\ ~rotated) =>
             (csv' = swap.data /\ UNCHANGED fsVars)]_vars
    /\ []((pc = "post" /\ ~rotated) =>
             (swap.exists /\ IdsOf(csv) \cap Ids(count) = {}
                 /\ IdsOf(csv) \subseteq Ids(swap)))

\* C10 witness: a pending slot left by a failed attempt is being sent again
\* while the active slot holds a newer event.
C10_Witness ==
    /\ pc = "post"
    /\ ~rotated
    /\ IdsOf(csv) = {1}
    /\ Ids(count) = {2}
    /\ restarts = 0

\* C11: an invocation of processCountFile that finds neither the swap file
\* nor the count file writes nothing to the filesystem, makes no transport
\* call and returns with the flag cleared: up to the test of the count file
\* its steps change no file and send nothing, no swap file can appear once
\* the invocation has found none, and the test that finds the count file
\* missing returns at once, the files as they were and the flag false.
C11_IdleNoOp ==
    /\ [][(main \/ setProcessing \/ checkSwap \/ checkCount) =>
             UNCHANGED <<fsVars, sent, lastOutcome>>]_vars
    /\ [](pc = "countExists" => ~swap.exists)
    /\ [][(checkCount /\ ~count.exists) =>
             (pc' = "delay" /\ ~isProcessingCountFile'
                 /\ lastExit' = "nothing")]_vars

\* C11 witness: an invocation has returned on "nothing to process" and both
\* files are still missing
C11_Witness ==
    /\ lastExit = "nothing"
    /\ pc = "delay"
    /\ ~isProcessingCountFile
    /\ ~count.exists /\ ~swap.exists

\* a thread of the threaded revision is inside processCountFile
Executing(i) == thr[i] \notin {"none", "done"}

\* C12: whenever no invocation of processCountFile is executing the flag
\* is clear, whichever way the last invocation returned: false in the last
\* revision's main loop, -1 in the threaded revision.
C12_GuardClearedOnExit ==
    /\ pc = "delay" => ~isProcessingCountFile
    /\ (\A i \in 1..MaxThreads : ~Executing(i)) =>
           isProcessingCountFileInt = -1

\* C12 witness: an invocation has returned after remove() failed, the flag
\* is clear and the loop is in its delay
C12_Witness ==
    /\ pc = "delay"
    /\ lastExit = "removeFailed"
    /\ ~isProcessingCountFile

\* C14: no failure of a step of the append or delivery path ends the
\* process: when the fopen of the count file fails nothing is recorded and
\* the handler returns; when the rename, the fopen of the address file or of
\* the swap file, or the remove fails, the files stay as they were, the flag
\* is cleared and the main loop is back in its delay.
C14_ErrorsNeverTerminate ==
    [][/\ (\E level \in Levels, t \in Times : signalIsr(level, t, FALSE)) =>
              (UNCHANGED fsVars /\ isrPc' = "idle")
       /\ moveCountToSwap(FALSE) =>
              (UNCHANGED fsVars /\ ~isProcessingCountFile' /\ pc' = "delay")
       /\ (\E macOk \in BOOLEAN, swapOk \in BOOLEAN :
               ~(macOk /\ swapOk) /\ readSwap(macOk, swapOk)) =>
              (UNCHANGED fsVars /\ ~isProcessingCountFile' /\ pc' = "delay")
       /\ removeSwap(FALSE) =>
              (UNCHANGED fsVars /\ ~isProcessingCountFile' /\ pc' = "delay")
      ]_vars

\* C15: when the address file cannot be opened processCountFile goes on to
\* the transport call with the swap file's content and an identifier that
\* is empty or a placeholder, and the process keeps running.
C15_IdentityFailureDoesNotAbort ==
    [][readSwap(FALSE, TRUE) =>
          (pc' = "post" /\ csv' = swap.data /\ macAddress' # MacAddressEth0
              /\ isrPc' = isrPc)]_vars

\* C17: once fileRecordSignalCount has returned 0 for an event, a restart
\* of the process, after a crash or after a power loss, finds the event's
\* line in the count file if it was there before the restart.
C17_DurableAcrossRestart ==
    [][(Restart \/ PowerLoss) =>
          \A e \in acked : e \in Ids(count) => e \in Ids(count')]_vars

\* C13: in a run in which the main loop keeps calling processCountFile
\* (and the transport succeeds in the end, by the fairness of SpecFair),
\* every swap file is sent and removed at some time, every event for which
\* fileRecordSignalCount returned 0 is at some time part of a csv for which
\* requestPostCsv returned 0, and after a failed rename, transport call or
\* remove the loop starts the next invocation without anybody's help.
C13_EventualDelivery ==
    []<>(pc = "set") =>
        /\ \A e \in 1..MaxEvents : (e \in acked) ~> (e \in sent)
        /\ swap.exists ~> ~swap.exists
        /\ (lastExit \in {"renameFailed", "postFailed", "removeFailed"})
               ~> (pc = "set")

\* C16: when requestPostCsv returned 0 and remove() fails, the flag is
\* cleared all the same and the swap file keeps its content; from then
\* until the next invocation has handed it to the transport the swap file
\* does not change, that invocation goes from the test of the swap file
\* straight to the read (no rotation), and what it sends is that content.
C16_DeleteFailureResendsBatch ==
    [][/\ removeSwap(FALSE) =>
              (~isProcessingCountFile' /\ swap.exists /\ swap' = swap)
       /\ (lastExit = "removeFailed" /\ lastExit' = "removeFailed") =>
              (swap' = swap /\ pc' \notin {"countExists", "move"})
       /\ (lastExit = "removeFailed" /\ readSwap(TRUE, TRUE)) =>
              (csv' = swap.data /\ count' = count)
      ]_vars

\* the first pulse of the example has been recorded and nothing was rotated
\* or sent since
FirstEventAppended ==
    nEvents = 1 /\ acked = {1} /\ sent = {} /\ count.exists /\ ~swap.exists

\* C18 as stated: after the rising edge at 1000 ms and the falling edge at
\* 1350 ms the count file holds the single line 1350, and the csv of the
\* transport call is made of lines 1350.
C18_ExampleAsStated ==
    /\ FirstEventAppended => count = File(<<[id |-> 1, line |-> 1350]>>)
    /\ pc = "post" => \A e \in Range(csv) : e.line = 1350

\* C18: in the run of the example each pulse (rising at 1000 ms, falling at
\* 1350 ms) records exactly one event; after the first one the count file
\* holds the single line 1, the time of the falling edge in whole seconds;
\* the rename makes the count file the swap file; the transport call carries
\* all of the swap file, lines 1, and the device's address; and when
\* requestPostCsv returned 0 and the remove succeeds after a rename by this
\* invocation, neither file exists.
C18_ExampleInSeconds ==
    /\ [](FirstEventAppended => count = File(<<[id |-> 1, line |-> 1]>>))
    /\ [](pc = "post" =>
             /\ csv = swap.data
             /\ macAddress = MacAddressEth0
             /\ \A e \in Range(csv) : e.line = 1)
    /\ [][/\ (lastRise = {1000} /\ signalIsr(0, 1350, TRUE)) =>
               (nEvents' = nEvents + 1 /\ isrPc' = "opened")
          /\ signalIsr(1, 1000, TRUE) => UNCHANGED <<nEvents, fsVars>>
          /\ moveCountToSwap(TRUE) => (swap' = count /\ ~count'.exists)
          /\ (rotated /\ removeSwap(TRUE)) =>
                 (~count'.exists /\ ~swap'.exists)
         ]_vars

\* C18 witness: the example has run to its end: one pulse recorded, rotated,
\* sent with a 2xx answer, the swap file removed and both files missing
C18_Witness ==
    /\ nEvents = 1 /\ acked = {1} /\ sent = {1}
    /\ delivered = {1}
    /\ lastExit = "removed"
    /\ ~count.exists /\ ~swap.exists

\* s is the beginning of t
IsPrefix(s, t) == Len(s) <= Len(t) /\ SubSeq(t, 1, Len(s)) = s

\* C19: while the swap file exists (every transport call failing) and
\* while processCountFile is at work, a falling edge that passes signalIsr's
\* tests is handed to fileRecordSignalCount whatever the flag and the swap
\* file are, the line it writes goes into the count file, and as long as
\* the swap file exists the count file is not renamed and loses no line.
C19_RecordingDuringOutage ==
    [][/\ \A t \in Times :
              (signalIsr(0, t, TRUE) /\ ~NoPrecedingRisingEdge
                  /\ ~SignalTooShort(t)) =>
              (nEvents' = nEvents + 1 /\ isrPc' = "opened")
       /\ (fileRecordSignalCount /\ (swap.exists \/ isProcessingCountFile)) =>
              (Len(count'.data) > 0
                  /\ count'.data[Len(count'.data)] = isrEvent)
       /\ (swap.exists /\ swap'.exists /\ restarts' = restarts) =>
              /\ count.exists => count'.exists
              /\ IsPrefix(count.data, count'.data)
      ]_vars

\* C20 as stated: when the transport call of an invocation has outlasted
\* the period, the main loop can call processCountFile (which then finds
\* the flag set and returns).
C20_TickDuringSlowDelivery == overdue => ENABLED main

\* C20: the main loop calls processCountFile, waits for its return and
\* only then sleeps its 1000 ms: while an invocation is in progress,
\* however long its transport call takes, no call of processCountFile can
\* start, and every call that starts finds the flag clear and goes on to
\* set it (the return on "something is already being processed" is never
\* taken).
C20_TicksWaitForDelivery ==
    /\ []((isProcessingCountFile \/ MainInProgress) => ~ENABLED main)
    /\ [][main => (~isProcessingCountFile /\ pc' = "set")]_vars

\* C20 witness: a transport call has outlasted the period and the main
\* thread is still inside processCountFile
C20_Witness ==
    /\ overdue
    /\ pc = "post"
    /\ isProcessingCountFile

\* C21: a falling edge that comes less than TRIGGER_INTERVAL_MS after its
\* rising edge (fallingTimestamp - risingTimestamp < TRIGGER_INTERVAL_MS)
\* records no event, touches no file and clears interruptTimeMsRising, so
\* that the next pulse is judged from its own rising edge; hence no run of
\* pulses that are each too short records an event.
C21_NoisePulseClearsRising ==
    [][\A t \in Times :
          (IsrStep(0, t)
              /\ \E rise \in lastRise : t - rise < TRIGGER_INTERVAL_MS) =>
              /\ nEvents' = nEvents
              /\ interruptTimeMsRising' = 0
              /\ UNCHANGED <<isrPc, fsVars>>]_vars

\* C22: a falling edge that arrives when no rising edge is recorded (the
\* first notification after start, or a falling edge right after another
\* falling edge) changes nothing: no event is counted or appended, the
\* stored rising timestamp and the handler's position stay as they are, no
\* file is touched and ledBlink is not called.
C22_FallingWithoutRisingIsNoOp ==
    [][\A t \in Times :
          (IsrStep(0, t) /\ lastRise = {}) =>
              UNCHANGED <<isrVars, fsVars, unsynced, isrHist, blinked>>]_vars

C22_Witness ==
    /\ fallingRun = 2
    /\ lastRise = {}
    /\ nEvents = 0
    /\ blinked = {}
    /\ restarts = 0

\* C24: ledBlink is called only for an event whose append to the count file
\* succeeded (fileRecordSignalCount returned 0); an event whose fopen failed
\* gets no blink.
C24_BlinkOnlyWhenRecorded == blinked \subseteq acked

\* C23: when the worker found no swap file and a count file but rename fails,
\* the step leaves both files as they are (count keeps its content, no swap
\* file appears), returns without reading or posting anything and with
\* isProcessingCountFile cleared; the next invocation again finds no swap
\* file and a count file, and so comes to the rename again.
C23_RenameFailureLeavesAllInPlace ==
    /\ [][moveCountToSwap(FALSE) =>
             /\ UNCHANGED <<fsVars, isrVars, sent, lastOutcome>>
             /\ count'.exists /\ ~swap'.exists
             /\ pc' = "delay"
             /\ csv' = <<>>
             /\ ~isProcessingCountFile'
             /\ lastExit' = "renameFailed"]_vars
    /\ [][(lastExit = "renameFailed" /\ checkSwap) => pc' = "countExists"]_vars
    /\ [][(lastExit = "renameFailed" /\ checkCount) => pc' = "move"]_vars

C23_Witness ==
    /\ lastExit = "renameFailed"
    /\ pc = "move"
    /\ count.exists
    /\ ~swap.exists

\* C25: in src/signalCounter.c a call of submitSignalCount that reaches the
\* test `isSubmittingSignalCount > -1` while the flag is 0, set by a call
\* that has not returned, returns at once: it goes on to no file check, no
\* rename and no submission, and changes neither the flag nor a file.
C25_FlagBlocksReentry ==
    [][\A i \in 1..MaxThreads :
          (submitTest(i) /\ isSubmittingSignalCount = ToUnsigned(0)) =>
              /\ thr'[i] = "done"
              /\ UNCHANGED <<fsVars, isSubmittingSignalCount>>]_vars

\* C26: whatever the order of the timestamps, signalIsr counts an event only
\* on a falling edge whose timestamp is at least TRIGGER_INTERVAL_MS after the
\* stored rising timestamp, the difference taken as integers; a falling edge
\* read earlier than its rising edge counts nothing.
C26_RecordedDwellAtLeastThreshold ==
    [][\A t \in Times :
          (IsrStep(0, t) /\ nEvents' # nEvents) =>
              /\ interruptTimeMsRising # 0
              /\ t - interruptTimeMsRising >= TRIGGER_INTERVAL_MS]_vars

\* C27: processCountFile comes to remove the swap file only after a
\* requestPostCsv in which a request was made (curl_easy_init gave a handle,
\* curl_easy_perform was called) and reported as successful; a call that made
\* no request counts as failed and the swap file stays.
C27_DeleteOnlyAfterPerformedRequest ==
    pc = "remove" => (CurlHandle(lastOutcome) /\ CurlOk(lastOutcome))

\* the events of s are in the order of their appends
InAppendOrder(s) == \A i, j \in 1..Len(s) : i < j => s[i].id < s[j].id

\* the csv of a transport call holds no event of the count file
C28_OnlyPendingIsSent == pc = "post" => IdsOf(csv) \cap Ids(count) = {}

\* the swap file is removed only when the batch read from it was answered 2xx
C28_DeletedAfterDelivery ==
    [][removeSwap(TRUE) => IdsOf(csv) \subseteq delivered]_vars

\* the lines of the files and of a batch are in the order of their appends
C28_LinesInAppendOrder ==
    /\ InAppendOrder(count.data)
    /\ InAppendOrder(swap.data)
    /\ InAppendOrder(csv)

\* an event is not delivered for the first time after a later one was
C28_FirstDeliveriesInOrder ==
    [][\A e1, e2 \in acked :
          (e1 < e2 /\ e2 \in delivered /\ e1 \notin delivered) =>
              e1 \notin delivered']_vars

\* C28: batches are delivered in append order: while a swap file exists no
\* event of the count file is in a transport call, and the swap file goes
\* away only when its batch was sent successfully; the lines of a batch are in
\* append order; so over appends, ticks, transport failures and restarts an
\* earlier event is never delivered for the first time after a later one.
C28_DeliveredInAppendOrder ==
    /\ []C28_OnlyPendingIsSent
    /\ C28_DeletedAfterDelivery
    /\ []C28_LinesInAppendOrder
    /\ C28_FirstDeliveriesInOrder
====
